---- MODULE Spec2Model ----
(***************************************************************************)
(* Model of the serial sweep controller of PEG (src/src/mainSerial.cpp,    *)
(* function main).  The two output files are modelled byte by byte as      *)
(* sequences of one-character strings, so that seeking back and            *)
(* overwriting in place, truncation on open, and the decimal formatting    *)
(* of the counters all show in the properties stated of the files.         *)
(* The output file is kept twice: as it is on disk (outFile) and as main    *)
(* has written it through its stream (outStream); the two differ while      *)
(* bytes wait in the stream buffer, which the writers of PEMainSupport      *)
(* (not in src/) may or may not flush and which main flushes at the seekp   *)
(* of line 221, the std::endl of line 223 and the close of line 235.        *)
(*                                                                         *)
(* Numbers: min, max and increment are small integers; a wavelength is an  *)
(* exact rational [num, den] or infinite (a division by 0.0), an incidence *)
(* angle is a fixed number of degrees, an arcsine of an in-range argument, *)
(* or NaN (arcsine of an out-of-range argument).                           *)
(***************************************************************************)
EXTENDS Integers, Sequences, FiniteSets, TLC

VARIABLES
    io,                  \* PECommandLineOptions after parseFromCommandLine
    pc,                  \* position of main()
    flushes,             \* whether the writers of PEMainSupport flush what they write
    outFile,             \* bytes of the file named by io.outputFile, as on disk
    outStream,           \* the same file with the bytes still buffered in outputFile applied
    outOpen,             \* outputFile.is_open()
    outPos,              \* put position of the std::ofstream outputFile
    outputFilePosition,  \* std::streampos recorded after the header
    progFile,            \* bytes of the file named by io.progressFile
    progOpen,            \* is_open() of the last progressFile stream constructed
    totalSteps,          \* int totalSteps
    i,                   \* loop variable of the calculation loop
    j,                   \* loop variable of the result-writing loop
    anyFailures,         \* bool anyFailures
    anySuccesses,        \* bool anySuccesses
    results,             \* std::vector<PEResult> results
    exitCode             \* value returned by main (read it when pc is "done" or "aborted")

vars == << io, pc, flushes, outFile, outStream, outOpen, outPos, outputFilePosition,
           progFile, progOpen, totalSteps, i, j, anyFailures, anySuccesses, results,
           exitCode >>

-----------------------------------------------------------------------------
(* Bounds of the model *)

\* min and max are drawn from 0..MaxCoord
MaxCoord == 2
\* increment is drawn from -1..MaxInc
MaxInc == 2

(* Program constants *)

\* M_HC = 1.23984172 eV*um, as HCNum / HCDen
HCNum == 123984172
HCDen == 100000000
\* int totalSteps when the double quotient is infinite or NaN (increment 0):
\* the conversion is undefined; x86-64 cvttsd2si yields INT_MIN, and +1 follows
IntMinPlusOne == -2147483647

Modes == {"ConstantIncidence", "ConstantIncludedAngle", "ConstantWavelength"}

-----------------------------------------------------------------------------
(* Text *)

TxtInput == <<"#", " ", "I", "n", "p", "u", "t", "\n">>
TxtProgress == <<"#", " ", "P", "r", "o", "g", "r", "e", "s", "s", "\n">>
TxtOutput == <<"#", " ", "O", "u", "t", "p", "u", "t", "\n">>
TxtStatus == <<"s", "t", "a", "t", "u", "s", "=">>
TxtCompleted == <<"c", "o", "m", "p", "l", "e", "t", "e", "d", "S", "t", "e", "p", "s", "=">>
TxtTotal == <<"t", "o", "t", "a", "l", "S", "t", "e", "p", "s", "=">>
TxtInProgress == <<"i", "n", "P", "r", "o", "g", "r", "e", "s", "s">>
TxtSucceeded == <<"s", "u", "c", "c", "e", "e", "d", "e", "d">>
TxtSomeFailed == <<"s", "o", "m", "e", "F", "a", "i", "l", "e", "d">>
TxtAllFailed == <<"a", "l", "l", "F", "a", "i", "l", "e", "d">>
TxtMode == <<"m", "o", "d", "e", "=">>
TxtMin == <<"m", "i", "n", "=">>
TxtMax == <<"m", "a", "x", "=">>
TxtIncrement == <<"i", "n", "c", "r", "e", "m", "e", "n", "t", "=">>
TxtUnits == <<"u", "n", "i", "t", "s", "=", "e", "V", "\n">>
TxtConstantIncidence == <<"c", "o", "n", "s", "t", "a", "n", "t", "I", "n", "c", "i", "d", "e", "n", "c", "e">>
TxtConstantIncludedAngle == <<"c", "o", "n", "s", "t", "a", "n", "t", "I", "n", "c", "l", "u", "d", "e", "d", "A", "n", "g", "l", "e">>
TxtConstantWavelength == <<"c", "o", "n", "s", "t", "a", "n", "t", "W", "a", "v", "e", "l", "e", "n", "g", "t", "h">>
TxtError == <<"E", "r", "r", "o", "r">>
NL == <<"\n">>
\* what a previous run left in a file: longer than anything a short run writes
TxtStale == <<"#", " ", "P", "r", "o", "g", "r", "e", "s", "s", "\n", "s", "t", "a", "t", "u", "s", "=", "s", "o", "m", "e", "F", "a", "i", "l", "e", "d", "\n", "c", "o", "m", "p", "l", "e", "t", "e", "d", "S", "t", "e", "p", "s", "=", "1", "0", "\n", "t", "o", "t", "a", "l", "S", "t", "e", "p", "s", "=", "1", "0", "\n", "#", " ", "O", "u", "t", "p", "u", "t", "\n", "1", "\t", "0", "\n">>

Abs(n) == IF n < 0 THEN -n ELSE n

Digit(d) == <<"0", "1", "2", "3", "4", "5", "6", "7", "8", "9">>[d + 1]

RECURSIVE FormatNat(_)
FormatNat(n) == IF n < 10 THEN <<Digit(n)>>
                ELSE FormatNat(n \div 10) \o <<Digit(n % 10)>>

\* operator<< of an integral value: decimal digits, '-' for a negative one
FormatInt(n) == IF n < 0 THEN <<"-">> \o FormatNat(-n) ELSE FormatNat(n)

RECURSIVE JoinComma(_)
JoinComma(s) == IF Len(s) = 0 THEN <<>>
                ELSE IF Len(s) = 1 THEN FormatInt(s[1])
                ELSE FormatInt(s[1]) \o <<",">> \o JoinComma(Tail(s))

-----------------------------------------------------------------------------
(* The writers of PEMainSupport, whose text format the comment of main()   *)
(* documents (mainSerial.cpp lines 82-113)                                 *)

\* status of a progress block
RunStatus(completedSteps, total, succeeded, failed) ==
    IF completedSteps < total THEN "InProgress"
    ELSE IF succeeded /\ failed THEN "SomeFailed"
    ELSE IF failed THEN "AllFailed"
    ELSE "Succeeded"

StatusText(status) ==
    CASE status = "InProgress" -> TxtInProgress
      [] status = "Succeeded"  -> TxtSucceeded
      [] status = "SomeFailed" -> TxtSomeFailed
      [] status = "AllFailed"  -> TxtAllFailed

\* writeOutputFileProgress(of, completedSteps, totalSteps, succeeded, failed)
ProgressBlock(completedSteps, total, succeeded, failed) ==
    TxtProgress
    \o TxtStatus \o StatusText(RunStatus(completedSteps, total, succeeded, failed)) \o NL
    \o TxtCompleted \o FormatInt(completedSteps) \o NL
    \o TxtTotal \o FormatInt(total) \o NL

ModeText(mode) ==
    CASE mode = "ConstantIncidence"     -> TxtConstantIncidence
      [] mode = "ConstantIncludedAngle" -> TxtConstantIncludedAngle
      [] mode = "ConstantWavelength"    -> TxtConstantWavelength

\* writeOutputFileHeader(of, io): the "# Input" section (the fields of the
\* sweep; the grating fields that follow them are constant and left out)
Header(cfg) ==
    TxtInput
    \o TxtMode \o ModeText(cfg.mode) \o NL
    \o (IF cfg.eV THEN TxtUnits ELSE <<>>)
    \o TxtMin \o FormatInt(cfg.min) \o NL
    \o TxtMax \o FormatInt(cfg.max) \o NL
    \o TxtIncrement \o FormatInt(cfg.increment) \o NL

\* writeOutputFileResult(of, result, io): one line per result, a failed step
\* as a marked line
ResultLine(r) ==
    FormatInt(r.value) \o <<"\t">>
    \o (IF r.status = "Success" THEN JoinComma(r.eff) ELSE TxtError) \o NL

RECURSIVE ResultLines(_)
ResultLines(rs) == IF Len(rs) = 0 THEN <<>>
                   ELSE ResultLine(Head(rs)) \o ResultLines(Tail(rs))

-----------------------------------------------------------------------------
(* File streams *)

\* mutant of OpenTrunc: the file is opened without trunc
OpenKeepingContent(content, ok) == content

\* mutant of OpenTrunc: the file is emptied even when it cannot be opened
OpenEmptying(content, ok) == <<>>

\* std::ofstream(path, out | trunc): a successful open empties the file, a
\* failed one leaves it as it was
OpenTrunc(content, ok) == IF ok THEN <<>> ELSE content

\* a write of bytes through an ofstream whose put position is pos (0-based):
\* bytes under the write are replaced, bytes beyond it stay, the file grows
\* when the write runs past its end
WriteAt(content, pos, bytes) ==
    SubSeq(content, 1, pos) \o bytes
    \o SubSeq(content, pos + Len(bytes) + 1, Len(content))

\* the file on disk after a writer of PEMainSupport has written to the
\* stream: what the stream holds when the writer flushes (std::endl), what it
\* held before when the writer leaves its bytes in the buffer
AfterWriter(disk, stream, flushed) == IF flushed THEN stream ELSE disk

\* the file on disk after the stream has emptied its buffer (std::endl,
\* seekp, close)
AfterFlush(disk, stream) == stream

\* mutant of SeekTo: the seekp is left out and the write goes on where the
\* last one ended
SeekNowhere(recorded, current) == current

\* mutant of SeekTo: the seekp goes to the start of the file
SeekToStart(recorded, current) == 0

\* outputFile.seekp(outputFilePosition)
SeekTo(recorded, current) == recorded

-----------------------------------------------------------------------------
(* The arithmetic of main() *)

\* mutant of TruncDiv: the quotient is rounded down instead
FloorDiv(a, b) ==
    IF (a < 0) = (b < 0) \/ Abs(a) % Abs(b) = 0
    THEN (Abs(a) \div Abs(b)) * (IF (a < 0) = (b < 0) THEN 1 ELSE -1)
    ELSE -(Abs(a) \div Abs(b)) - 1

\* int(q): conversion of the double quotient a/b to int truncates toward zero
TruncDiv(a, b) ==
    IF (a < 0) = (b < 0) THEN Abs(a) \div Abs(b) ELSE -(Abs(a) \div Abs(b))

\* int totalSteps = int((io.max - io.min)/io.increment) + 1, as the set of
\* values the build can produce: with increment 0 the quotient is infinite or
\* NaN and its conversion to int is undefined (INT_MIN on x86-64, 0 for NaN
\* on a saturating target)
TotalSteps(min, max, increment) ==
    IF increment = 0 THEN {IntMinPlusOne, 1}
    ELSE {TruncDiv(max - min, increment) + 1}

\* double currentValue = io.min + io.increment*i
CurrentValue(cfg, k) == cfg.min + cfg.increment * k

Finite(n, d) == [inf |-> FALSE, num |-> n, den |-> d]
Infinite == [inf |-> TRUE, num |-> 1, den |-> 0]

\* wavelength = M_HC / wavelength
EnergyToWavelength(v) == IF v = 0 THEN Infinite ELSE Finite(HCNum, v * HCDen)

\* the wavelength handed to the solver
\* mutant of Wavelength: the step coordinate is taken in every mode
WavelengthOfCoordinate(cfg, currentValue) ==
    IF cfg.eV THEN EnergyToWavelength(currentValue) ELSE Finite(currentValue, 1)

Wavelength(cfg, currentValue) ==
    LET w == IF cfg.mode = "ConstantWavelength" THEN cfg.wavelength
             ELSE currentValue
    IN  IF cfg.eV THEN EnergyToWavelength(w) ELSE Finite(w, 1)

\* cos(ciaRad/2) for the included angles of the model, as a rational
CosHalf(includedAngle) ==
    CASE includedAngle = 0   -> [num |-> 1, den |-> 1]
      [] includedAngle = 120 -> [num |-> 1, den |-> 2]

\* the argument -toOrder*wavelength/2/period/cos(ciaRad/2) of asin is NaN or
\* outside [-1, 1]
AsinArgOutOfRange(cfg, w) ==
    \/ w.inf
    \/ Abs(cfg.toOrder * w.num) * CosHalf(cfg.includedAngle).den
         > 2 * cfg.period * CosHalf(cfg.includedAngle).num * Abs(w.den)

Degrees(d) == [kind |-> "deg", val |-> d]
NaN == [kind |-> "nan", val |-> 0]
ArcSine(cfg) == [kind |-> "asin", val |-> cfg.includedAngle]

\* the incidence angle handed to the solver
IncidenceAngle(cfg, currentValue, w) ==
    CASE cfg.mode = "ConstantIncidence" -> Degrees(cfg.incidenceAngle)
      [] cfg.mode = "ConstantIncludedAngle" ->
            IF AsinArgOutOfRange(cfg, w) THEN NaN ELSE ArcSine(cfg)
      [] cfg.mode = "ConstantWavelength" -> Degrees(currentValue)

\* the efficiencies a successful calculation may return
EffChoices == { <<7>>, <<12, 5>> }

\* grating->getEff(incidenceAngle, wavelength, mathOptions, printDebugOutput):
\* the outcomes of the solver; nothing in main() ties them to the inputs
GetEff(incidenceAngle, w) ==
    { [status |-> "Success", eff |-> e] : e \in EffChoices }
    \cup { [status |-> "Failure", eff |-> <<>>] }

\* if(result.status == PEResult::Success) anySuccesses = true;
SuccessFlag(status, before) == before \/ status = "Success"
\* else anyFailures = true;
FailureFlag(status, before) == before \/ status # "Success"

\* mutant of CompletedSteps: the step just finished is not counted
CompletedStepsBehind(k) == k

\* the completedSteps argument of the writes after step k
CompletedSteps(k) == k + 1

\* mutant of LoopCondition: the loop ends at the first failure
LoopUntilFailure(k, total) == k < total /\ ~anyFailures

\* for(...; i<totalSteps; ...)
LoopCondition(k, total) == k < total

\* mutant of NextIndex: a failed step is tried again
RetryFailedIndex(k) ==
    IF results[Len(results)].status = "Failure" THEN k ELSE k + 1

\* for(...; ...; ++i)
NextIndex(k) == k + 1

\* mutant of PushBack: the new result goes in front
PushFront(v, r) == <<r>> \o v

\* results.push_back(result)
PushBack(v, r) == Append(v, r)

\* if(!outputFile.is_open()) return -1
OutputOpenFailed(outOk) == ~outOk
\* mutant of ProgressOpenFailed: the progress file is not checked at startup
ProgressOpenUnchecked(cfg, progOk) == FALSE

\* if(!io.progressFile.empty()) { ... if(!progressFile.is_open()) return -1 }
ProgressOpenFailed(cfg, progOk) == cfg.progressFile /\ ~progOk

-----------------------------------------------------------------------------
(* The validated command lines of the model *)

Coords == 0..MaxCoord
Increments == -1..MaxInc

ModeParams ==
    { [mode |-> "ConstantIncidence", incidenceAngle |-> 88, includedAngle |-> 0,
       toOrder |-> 0, wavelength |-> 0] }
    \cup { [mode |-> "ConstantIncludedAngle", incidenceAngle |-> 0,
            includedAngle |-> 120, toOrder |-> m, wavelength |-> 0]
           : m \in {-1, 1} }
    \cup { [mode |-> "ConstantWavelength", incidenceAngle |-> 0,
            includedAngle |-> 0, toOrder |-> 0, wavelength |-> w]
           : w \in {0, 2} }

\* the writers either end every line with std::endl, so that each call
\* leaves the file flushed, or leave their bytes in the stream buffer
WriterFlushes == BOOLEAN

Configs ==
    { [mode |-> p.mode, min |-> lo, max |-> hi, increment |-> inc,
       incidenceAngle |-> p.incidenceAngle, includedAngle |-> p.includedAngle,
       toOrder |-> p.toOrder, wavelength |-> p.wavelength, period |-> 1,
       eV |-> e, progressFile |-> pf]
      : p \in ModeParams, lo \in Coords, hi \in Coords, inc \in Increments,
        e \in BOOLEAN, pf \in BOOLEAN }

\* the state when parseFromCommandLine has returned true; both paths may name
\* files that a previous run left behind
Init ==
    /\ io \in Configs
    /\ pc = "open"
    /\ flushes \in WriterFlushes
    /\ outFile = TxtStale
    /\ outStream = TxtStale
    /\ outOpen = FALSE
    /\ outPos = 0
    /\ outputFilePosition = 0
    /\ progFile = TxtStale
    /\ progOpen = FALSE
    /\ totalSteps = 0
    /\ i = 0
    /\ j = 0
    /\ anyFailures = FALSE
    /\ anySuccesses = FALSE
    /\ results = <<>>
    /\ exitCode = 0

-----------------------------------------------------------------------------
(* The steps of main() *)

\* lines 124-138: open the output file, check that the progress file opens
OpenFiles ==
    /\ pc = "open"
    /\ \E outOk \in BOOLEAN, progOk \in BOOLEAN :
         /\ outFile' = OpenTrunc(outFile, outOk)
         /\ outStream' = outFile'
         /\ outOpen' = outOk
         /\ IF OutputOpenFailed(outOk)
            THEN /\ pc' = "aborted"
                 /\ exitCode' = -1
                 /\ UNCHANGED << progFile, progOpen >>
            ELSE IF ProgressOpenFailed(io, progOk)
            THEN /\ pc' = "aborted"
                 /\ exitCode' = -1
                 /\ UNCHANGED << progFile, progOpen >>
            ELSE /\ pc' = "header"
                 /\ exitCode' = exitCode
                 /\ progFile' = IF io.progressFile
                                THEN OpenTrunc(progFile, progOk) ELSE progFile
                 /\ progOpen' = (io.progressFile /\ progOk)
    /\ UNCHANGED << io, flushes, outPos, outputFilePosition, totalSteps, i, j,
                    anyFailures, anySuccesses, results >>

\* lines 140-146: write the header, remember the position, count the steps
WriteHeader ==
    /\ pc = "header"
    /\ outStream' = WriteAt(outStream, outPos, Header(io))
    /\ outFile' = AfterWriter(outFile, outStream', flushes)
    /\ outPos' = outPos + Len(Header(io))
    /\ outputFilePosition' = outPos'
    /\ totalSteps' \in TotalSteps(io.min, io.max, io.increment)
    /\ pc' = "initProgress"
    /\ UNCHANGED << io, flushes, outOpen, progFile, progOpen, i, j, anyFailures, anySuccesses,
                    results, exitCode >>

\* line 149: the initial progress block of the output file
InitialProgress ==
    /\ pc = "initProgress"
    /\ LET block == ProgressBlock(0, totalSteps, FALSE, FALSE)
       IN  /\ outStream' = WriteAt(outStream, outPos, block)
           /\ outFile' = AfterWriter(outFile, outStream', flushes)
           /\ outPos' = outPos + Len(block)
    /\ pc' = "initProgressFile"
    /\ UNCHANGED << io, flushes, outOpen, outputFilePosition, progFile, progOpen,
                    totalSteps, i, j, anyFailures, anySuccesses, results, exitCode >>

\* lines 151 and 229: std::ofstream progressFile(path, out | trunc); the
\* file is empty on disk as soon as it has opened, and is_open() is not
\* tested
ReopenProgressFile ==
    \E ok \in BOOLEAN :
        /\ progOpen' = ok
        /\ progFile' = OpenTrunc(progFile, ok)

\* lines 152-153 and 230-231: the block is written to the stream and the
\* stream, a local of the if-block, is closed at the end of the block; a
\* stream that did not open ignores the write
RewriteProgressFile(completedSteps) ==
    progFile' =
        IF progOpen
        THEN AfterFlush(progFile,
                        WriteAt(progFile, 0,
                                ProgressBlock(completedSteps, totalSteps,
                                              anySuccesses, anyFailures)))
        ELSE progFile

\* lines 150-151: with a progress file, open it again; without one go on to
\* the loop
InitialProgressFile ==
    /\ pc = "initProgressFile"
    /\ IF io.progressFile
       THEN ReopenProgressFile /\ pc' = "initProgressWrite"
       ELSE UNCHANGED << progFile, progOpen >> /\ pc' = "loop"
    /\ UNCHANGED << io, flushes, outOpen, outFile, outStream, outPos,
                    outputFilePosition, totalSteps, i, j, anyFailures,
                    anySuccesses, results, exitCode >>

\* lines 152-153: the initial progress block of the progress file
WriteInitialProgressFile ==
    /\ pc = "initProgressWrite"
    /\ RewriteProgressFile(0)
    /\ pc' = "loop"
    /\ UNCHANGED << io, flushes, outOpen, outFile, outStream, outPos,
                    outputFilePosition, progOpen, totalSteps, i, j, anyFailures,
                    anySuccesses, results, exitCode >>

\* lines 184-218: one calculation, its flags, results.push_back(result)
Calculate ==
    /\ pc = "loop"
    /\ LoopCondition(i, totalSteps)
    /\ LET currentValue == CurrentValue(io, i)
           w == Wavelength(io, currentValue)
           a == IncidenceAngle(io, currentValue, w)
       IN  \E r \in GetEff(a, w) :
             /\ anySuccesses' = SuccessFlag(r.status, anySuccesses)
             /\ anyFailures' = FailureFlag(r.status, anyFailures)
             /\ results' = PushBack(results,
                    [status |-> r.status, eff |-> r.eff, value |-> currentValue,
                     incidenceAngle |-> a, wavelength |-> w])
    /\ pc' = "writeHead"
    /\ UNCHANGED << io, flushes, outOpen, outFile, outStream, outPos,
                    outputFilePosition, progFile, progOpen, totalSteps, i, j,
                    exitCode >>

\* line 221: outputFile.seekp(outputFilePosition); the stream writes out
\* what it buffers before it moves
SeekBack ==
    /\ pc = "writeHead"
    /\ outFile' = AfterFlush(outFile, outStream)
    /\ outPos' = SeekTo(outputFilePosition, outPos)
    /\ pc' = "writeProgress"
    /\ UNCHANGED << io, flushes, outStream, outOpen, outputFilePosition, progFile,
                    progOpen, totalSteps, i, j, anyFailures, anySuccesses, results,
                    exitCode >>

\* line 222: the progress block of the step just calculated
WriteProgress ==
    /\ pc = "writeProgress"
    /\ LET block == ProgressBlock(CompletedSteps(i), totalSteps,
                                  anySuccesses, anyFailures)
       IN  /\ outStream' = WriteAt(outStream, outPos, block)
           /\ outFile' = AfterWriter(outFile, outStream', flushes)
           /\ outPos' = outPos + Len(block)
    /\ pc' = "writeHeading"
    /\ UNCHANGED << io, flushes, outOpen, outputFilePosition, progFile, progOpen,
                    totalSteps, i, j, anyFailures, anySuccesses, results, exitCode >>

\* line 223: outputFile << "# Output" << std::endl, which flushes the stream;
\* then the loop of line 224 starts (j = 0)
WriteHeading ==
    /\ pc = "writeHeading"
    /\ outStream' = WriteAt(outStream, outPos, TxtOutput)
    /\ outFile' = AfterFlush(outFile, outStream')
    /\ outPos' = outPos + Len(TxtOutput)
    /\ j' = 0
    /\ pc' = "writeResults"
    /\ UNCHANGED << io, flushes, outOpen, outputFilePosition, progFile, progOpen,
                    totalSteps, i, anyFailures, anySuccesses, results, exitCode >>

\* lines 224-225: one pass of the loop over results
WriteResult ==
    /\ pc = "writeResults"
    /\ j < Len(results)
    /\ LET line == ResultLine(results[j + 1])
       IN  /\ outStream' = WriteAt(outStream, outPos, line)
           /\ outFile' = AfterWriter(outFile, outStream', flushes)
           /\ outPos' = outPos + Len(line)
    /\ j' = j + 1
    /\ pc' = IF j + 1 < Len(results) THEN "writeResults" ELSE "progressFile"
    /\ UNCHANGED << io, flushes, outOpen, outputFilePosition, progFile, progOpen,
                    totalSteps, i, anyFailures, anySuccesses, results, exitCode >>

\* lines 228-229 and 233: with a progress file, open it again; without one
\* the pass of the loop is over (++i)
UpdateProgressFile ==
    /\ pc = "progressFile"
    /\ IF io.progressFile
       THEN ReopenProgressFile /\ pc' = "progressWrite" /\ i' = i
       ELSE UNCHANGED << progFile, progOpen >> /\ pc' = "loop" /\ i' = NextIndex(i)
    /\ UNCHANGED << io, flushes, outOpen, outFile, outStream, outPos,
                    outputFilePosition, totalSteps, j, anyFailures, anySuccesses,
                    results, exitCode >>

\* lines 230-233: write the progress file, then ++i
WriteProgressFile ==
    /\ pc = "progressWrite"
    /\ RewriteProgressFile(CompletedSteps(i))
    /\ i' = NextIndex(i)
    /\ pc' = "loop"
    /\ UNCHANGED << io, flushes, outOpen, outFile, outStream, outPos,
                    outputFilePosition, progOpen, totalSteps, j, anyFailures,
                    anySuccesses, results, exitCode >>

\* lines 235-237: the loop is over; outputFile.close() writes out what the
\* stream still holds
Finish ==
    /\ pc = "loop"
    /\ ~LoopCondition(i, totalSteps)
    /\ outFile' = AfterFlush(outFile, outStream)
    /\ outOpen' = FALSE
    /\ pc' = "done"
    /\ exitCode' = 0
    /\ UNCHANGED << io, flushes, outStream, outPos, outputFilePosition, progFile,
                    progOpen, totalSteps, i, j, anyFailures, anySuccesses,
                    results >>

Next ==
    \/ OpenFiles
    \/ WriteHeader
    \/ InitialProgress
    \/ InitialProgressFile
    \/ WriteInitialProgressFile
    \/ Calculate
    \/ SeekBack
    \/ WriteProgress
    \/ WriteHeading
    \/ WriteResult
    \/ UpdateProgressFile
    \/ WriteProgressFile
    \/ Finish

Spec == Init /\ [][Next]_vars

\* main() runs to its end: nothing in it waits
FairSpec == Spec /\ WF_vars(Next)

-----------------------------------------------------------------------------
(* What an observer finds in the files and in the controller *)

Statuses == {"InProgress", "Succeeded", "SomeFailed", "AllFailed"}

\* the bytes main has written to the output file from the recorded position
\* on, those still in the stream buffer included
PrimaryRegion == SubSeq(outStream, outputFilePosition + 1, Len(outStream))

\* the bytes of the output file on disk from the recorded position to its
\* end, as another process reads them
DiskRegion == SubSeq(outFile, outputFilePosition + 1, Len(outFile))

\* the status a reader parses from the progress block that starts content
StatusIn(content) ==
    LET at == Len(TxtProgress) + Len(TxtStatus)
        Reads(s) == SubSeq(content, at + 1, at + Len(StatusText(s)) + 1)
                      = StatusText(s) \o NL
    IN  IF Len(content) > at /\ \E s \in Statuses : Reads(s)
        THEN CHOOSE s \in Statuses : Reads(s)
        ELSE "none"

AllSuccess(rs) == \A n \in 1..Len(rs) : rs[n].status = "Success"
AllFailure(rs) == \A n \in 1..Len(rs) : rs[n].status # "Success"
SomeSuccess(rs) == \E n \in 1..Len(rs) : rs[n].status = "Success"
SomeFailure(rs) == \E n \in 1..Len(rs) : rs[n].status # "Success"

\* the output file holds the progress block of Len(results) completed steps
PrimaryBlockCurrent ==
    pc \in {"initProgressFile", "initProgressWrite", "loop", "writeHeading",
            "writeResults", "progressFile", "progressWrite", "done"}

\* a step has been completed and written to the output file in full
StepWritten ==
    \/ pc \in {"progressFile", "progressWrite"}
    \/ pc \in {"loop", "done"} /\ i >= 1

\* the complete rewritable region for the first k results
RegionFor(k) ==
    LET rs == SubSeq(results, 1, k)
    IN  ProgressBlock(k, totalSteps, SomeSuccess(rs), SomeFailure(rs))
        \o (IF k = 0 THEN <<>> ELSE TxtOutput \o ResultLines(rs))

-----------------------------------------------------------------------------
(* C1 *)

\* C1 (as claimed): in every progress block of the output file the status is
\* InProgress iff completedSteps < totalSteps, Succeeded iff completedSteps =
\* totalSteps and every result is Success, AllFailed iff completedSteps =
\* totalSteps and every result is Failure, and SomeFailed otherwise, for
\* every totalSteps.
C1_StatusClassification ==
    PrimaryBlockCurrent =>
        LET st == StatusIn(PrimaryRegion)
            k == Len(results)
            inProgress == k < totalSteps
            succeeded == k = totalSteps /\ AllSuccess(results)
            allFailed == k = totalSteps /\ AllFailure(results)
        IN  /\ (st = "InProgress") = inProgress
            /\ (st = "Succeeded") = succeeded
            /\ (st = "AllFailed") = allFailed
            /\ (st = "SomeFailed") = (~inProgress /\ ~succeeded /\ ~allFailed)

\* The classification restricted to sweeps of at least one step.
C1_StatusClassificationFromOneStep ==
    totalSteps >= 1 => C1_StatusClassification

-----------------------------------------------------------------------------
(* C2 *)

\* C2 (as claimed): at Done the result sequence holds exactly totalSteps
\* results, the k-th for step index k-1 at min + increment*(k-1), in strictly
\* ascending order of coordinate value.
C2_ResultsAtDone ==
    pc = "done" =>
        /\ Len(results) = totalSteps
        /\ \A k \in 1..Len(results) :
             results[k].value = io.min + io.increment * (k - 1)
        /\ \A k \in 1..(Len(results) - 1) :
             results[k].value < results[k + 1].value

-----------------------------------------------------------------------------
(* C3 *)

\* C3: a failing step never aborts the sweep: a failure is recorded as a
\* Failure result and leaves the run unaborted, and once a step has failed
\* the run still reaches Done with every one of the totalSteps steps
\* completed and recorded.
C3_FailureNeverAborts ==
    /\ [](anyFailures => /\ SomeFailure(results)
                         /\ pc # "aborted"
                         /\ exitCode = 0)
    /\ [][pc = "loop" /\ anyFailures /\ LoopCondition(i, totalSteps)
            => pc' = "writeHead" /\ Len(results') = Len(results) + 1]_vars
    /\ anyFailures ~> (pc = "done" /\ i = totalSteps /\ Len(results) = totalSteps)

\* a run that ended after its first step failed and a later one succeeded
C3_Witness ==
    /\ pc = "done"
    /\ Len(results) = totalSteps
    /\ totalSteps >= 2
    /\ results[1].status = "Failure"
    /\ results[totalSteps].status = "Success"

-----------------------------------------------------------------------------
(* C4 *)

\* C4: after every completed step k the output file, from the recorded
\* position to its end, is exactly the progress block for k completed steps,
\* the "# Output" heading and the lines of results 0..k-1 in order; no byte
\* of an earlier write follows them.  This is what main has written to the
\* stream; it is what the file holds on disk when the writers flush, and in
\* any case once the file is closed.
C4_RegionAfterStep ==
    StepWritten =>
        /\ Len(results) >= 1
        /\ PrimaryRegion =
             ProgressBlock(Len(results), totalSteps, anySuccesses, anyFailures)
             \o TxtOutput \o ResultLines(results)
        /\ (flushes \/ pc = "done") => DiskRegion = PrimaryRegion

\* the last step of a three-step run has been written: its progress block
\* (someFailed) is no longer than the one before it (inProgress), and the
\* lines written after it end the file
C4_Witness ==
    /\ pc = "done"
    /\ Len(results) = 3
    /\ anySuccesses /\ anyFailures
    /\ PrimaryRegion = RegionFor(3)
    /\ DiskRegion = RegionFor(3)
    /\ Len(ProgressBlock(3, totalSteps, anySuccesses, anyFailures))
         <= Len(ProgressBlock(2, totalSteps, TRUE, TRUE))

-----------------------------------------------------------------------------
(* C5 *)

\* C5 (as claimed): whenever a reader reads the output file, the rewritable
\* region is the complete state of the step before or the complete state of
\* the current step, never a mix of the two.
C5_ReaderSeesCompleteState ==
    (pc \in {"initProgressFile", "initProgressWrite", "loop", "writeHead",
             "writeProgress", "writeHeading", "writeResults", "progressFile",
             "progressWrite", "done"}
     /\ Len(outFile) > outputFilePosition) =>
        \/ DiskRegion = RegionFor(Len(results))
        \/ Len(results) >= 1 /\ DiskRegion = RegionFor(Len(results) - 1)

-----------------------------------------------------------------------------
(* C6 *)

\* no header, no progress block and no result is in either file, and the
\* solver has not been invoked
NothingWritten ==
    /\ outFile \in {<<>>, TxtStale}
    /\ progFile = TxtStale
    /\ results = <<>>
    /\ ~anySuccesses /\ ~anyFailures

\* C6: if the output file cannot be opened, or a progress file was requested
\* and cannot be opened at startup, main returns a non-zero status before
\* the header, before any progress block and before any solver call; and the
\* header is only ever written with the requested files open.
C6_OpenFailureAborts ==
    /\ [][pc = "open" /\ (~outOpen' \/ (io.progressFile /\ ~progOpen'))
            => pc' = "aborted" /\ exitCode' # 0 /\ NothingWritten']_vars
    /\ [][pc = "aborted" => pc' = "aborted" /\ NothingWritten']_vars
    /\ [](pc = "aborted" => exitCode # 0 /\ NothingWritten)
    /\ [](pc = "header" => outOpen /\ (io.progressFile => progOpen))

\* the output file opened (and was emptied), the progress file did not, and
\* main returned -1
C6_Witness ==
    /\ pc = "aborted"
    /\ exitCode = -1
    /\ io.progressFile
    /\ outOpen /\ outFile = <<>>
    /\ ~progOpen /\ progFile = TxtStale

-----------------------------------------------------------------------------
(* C7 *)

\* the solver is invoked in this step (its result is appended in the same
\* step of main)
SolverInvoked == Len(results') = Len(results) + 1

\* the progress block of the controller's present counters and flags
CurrentBlock == ProgressBlock(Len(results), totalSteps, anySuccesses, anyFailures)

\* the steps so far were run one after the other, in index order, and the
\* last of them is written to the output file in full: all of it through the
\* stream, its progress block on disk too (the std::endl of line 223), and
\* all of it on disk when the writers flush
WrittenInOrder ==
    /\ Len(results) = i
    /\ \A k \in 1..Len(results) : results[k].value = CurrentValue(io, k - 1)
    /\ i >= 1 => /\ PrimaryRegion = RegionFor(i)
                 /\ SubSeq(DiskRegion, 1, Len(CurrentBlock)) = CurrentBlock
                 /\ flushes => DiskRegion = RegionFor(i)

\* C7 (as claimed): the solver is not invoked for a step until every earlier
\* step's result has been appended and the output file rewritten with that
\* step counted, and the progress file, when one is configured, rewritten as
\* well.
C7_SequentialAsClaimed ==
    [][SolverInvoked =>
         /\ WrittenInOrder
         /\ (i >= 1 /\ io.progressFile) => progFile = CurrentBlock]_vars

\* C7 (amended): the solver is not invoked for a step until every earlier
\* step's result has been appended and the output file rewritten with that
\* step counted; the progress file, when one is configured, has been
\* rewritten as well if it opened again for that rewrite, and otherwise
\* holds what it held before.
C7_Sequential ==
    /\ [][SolverInvoked =>
            /\ WrittenInOrder
            /\ (i >= 1 /\ io.progressFile /\ progOpen)
                  => progFile = CurrentBlock]_vars
    /\ [][(pc = "progressWrite" /\ ~progOpen) =>
            (progFile' = progFile /\ pc' = "loop")]_vars

\* the solver is about to be invoked for step 2 with a progress file open
C7_Witness ==
    /\ pc = "loop"
    /\ i = 2
    /\ LoopCondition(i, totalSteps)
    /\ io.progressFile /\ progOpen
    /\ progFile = CurrentBlock
    /\ PrimaryRegion = RegionFor(2)

-----------------------------------------------------------------------------
(* C8 *)

\* the initial write, or the rewrite after a step, is over
ProgressFileRewritten == pc \in {"loop", "done"}

\* the progress file is exactly one progress block, the one at the head of
\* the rewritable region of the output file
MirrorsPrimary ==
    /\ progFile = CurrentBlock
    /\ progFile = SubSeq(PrimaryRegion, 1, Len(progFile))
    /\ StatusIn(progFile) = StatusIn(PrimaryRegion)

\* C8 (as claimed): with a progress file configured, after the initial write
\* and after every completed step the progress file holds exactly one
\* progress block and no results (nothing of what the file held before is
\* left), with the status, completedSteps and totalSteps of the block just
\* written to the output file.
C8_ProgressFileAsClaimed ==
    (io.progressFile /\ ProgressFileRewritten) => MirrorsPrimary

\* C8 (amended): with a progress file configured, every rewrite whose open
\* succeeded first empties the file and then leaves in it exactly one
\* progress block and no results, with the status, completedSteps and
\* totalSteps of the block just written to the output file; a rewrite whose
\* open failed leaves the file as it was.
C8_ProgressFile ==
    /\ [](io.progressFile /\ ProgressFileRewritten /\ progOpen
            => MirrorsPrimary)
    /\ [][(pc \in {"initProgressFile", "progressFile"} /\ io.progressFile) =>
            (progFile' = IF progOpen' THEN <<>> ELSE progFile)]_vars
    /\ [][(pc \in {"initProgressWrite", "progressWrite"} /\ ~progOpen) =>
            (progFile' = progFile)]_vars

\* a run of at least two steps has ended and the last rewrite, of a block
\* shorter than the one before it, opened its stream
C8_Witness ==
    /\ pc = "done"
    /\ io.progressFile /\ progOpen
    /\ totalSteps >= 2
    /\ MirrorsPrimary
    /\ StatusIn(progFile) = "Succeeded"

-----------------------------------------------------------------------------
(* C9 *)

\* C9 (as claimed): a sweep whose computed totalSteps is less than 1 is
\* reported as an error before any step executes: it never has a progress
\* block written and never reaches the loop or Done.
C9_FailsFastWithoutSteps ==
    pc \in {"initProgressFile", "initProgressWrite", "loop", "writeHead",
            "writeProgress", "writeHeading", "writeResults", "progressFile",
            "progressWrite", "done"}
        => totalSteps >= 1

-----------------------------------------------------------------------------
(* C10 *)

\* C10 (as claimed): in ConstantIncludedAngle mode a step whose arcsine
\* argument lies outside [-1, 1] is recorded as a Failure result, never as
\* Success.
C10_DomainErrorIsFailure ==
    \A k \in 1..Len(results) :
        (io.mode = "ConstantIncludedAngle"
         /\ AsinArgOutOfRange(io, results[k].wavelength))
            => results[k].status = "Failure"

-----------------------------------------------------------------------------
(* C11 *)

\* the value main divides M_HC by for the k-th result
ConvertedValue(k) ==
    IF io.mode = "ConstantWavelength" THEN io.wavelength ELSE results[k].value

\* C11 (as claimed): with energy units selected, a step whose value to
\* convert is 0 is recorded as a Failure result, never as Success.
C11_ZeroEnergyIsFailure ==
    \A k \in 1..Len(results) :
        (io.eV /\ ConvertedValue(k) = 0) => results[k].status = "Failure"

-----------------------------------------------------------------------------
(* C12 *)

\* totalSteps has been computed
StepsCounted == pc \notin {"open", "header", "aborted"}

\* q is (max - min)/increment rounded down
IsFloorOfQuotient(q) ==
    IF io.increment > 0
    THEN q * io.increment <= io.max - io.min
         /\ io.max - io.min < (q + 1) * io.increment
    ELSE q * io.increment >= io.max - io.min
         /\ io.max - io.min > (q + 1) * io.increment

\* q is (max - min)/increment rounded toward zero
IsTruncationOfQuotient(q) ==
    /\ Abs(q) * Abs(io.increment) <= Abs(io.max - io.min)
    /\ Abs(io.max - io.min) < (Abs(q) + 1) * Abs(io.increment)
    /\ q > 0 => (io.max - io.min > 0) = (io.increment > 0)
    /\ q < 0 => (io.max - io.min > 0) # (io.increment > 0)

\* C12 (as claimed): with a non-zero increment the computed totalSteps is
\* floor((max-min)/increment) + 1, and it is at least 1.
C12_TotalStepsAsClaimed ==
    (StepsCounted /\ io.increment # 0) =>
        /\ IsFloorOfQuotient(totalSteps - 1)
        /\ totalSteps >= 1

\* C12 (amended): with a non-zero increment the computed totalSteps is the
\* quotient (max-min)/increment rounded toward zero, plus 1; it equals
\* floor((max-min)/increment) + 1 and is at least 1 whenever the quotient is
\* not negative, and it is at least 1 exactly when the quotient is above -1.
C12_TotalSteps ==
    (StepsCounted /\ io.increment # 0) =>
        /\ IsTruncationOfQuotient(totalSteps - 1)
        /\ (io.max - io.min) * io.increment >= 0
             => IsFloorOfQuotient(totalSteps - 1) /\ totalSteps >= 1
        /\ (totalSteps >= 1)
             = (Abs(io.max - io.min) < Abs(io.increment)
                \/ (io.max - io.min) * io.increment >= 0)

\* the quotient is -1/2: rounded toward zero it gives one step, where the
\* floor would give none
C12_Witness ==
    /\ StepsCounted
    /\ io.max - io.min = -1
    /\ io.increment = 2
    /\ totalSteps = 1
    /\ ~IsFloorOfQuotient(totalSteps - 1)

-----------------------------------------------------------------------------
(* C13 *)

\* C13 (as claimed): when min = max the computed totalSteps is 1 and the run
\* executes exactly one step, at coordinate min, whatever the increment.
C13_SinglePoint ==
    (StepsCounted /\ io.min = io.max) =>
        /\ totalSteps = 1
        /\ pc = "done" => Len(results) = 1 /\ results[1].value = io.min

-----------------------------------------------------------------------------
(* C14 *)

\* C14: in ConstantWavelength mode every solver call gets the step
\* coordinate min + increment*i itself as incidence angle, and the same
\* wavelength in every step: config.wavelength when the energy flag is off,
\* M_HC / config.wavelength when it is on.
C14_ConstantWavelength ==
    io.mode = "ConstantWavelength" =>
        \A k \in 1..Len(results) :
            /\ results[k].incidenceAngle.kind = "deg"
            /\ results[k].incidenceAngle.val = io.min + io.increment * (k - 1)
            /\ results[k].wavelength = results[1].wavelength
            /\ ~io.eV => /\ ~results[k].wavelength.inf
                         /\ results[k].wavelength.num
                              = io.wavelength * results[k].wavelength.den
            /\ (io.eV /\ io.wavelength # 0) =>
                   /\ ~results[k].wavelength.inf
                   /\ results[k].wavelength.num = HCNum
                   /\ results[k].wavelength.den = io.wavelength * HCDen
            /\ (io.eV /\ io.wavelength = 0) => results[k].wavelength.inf

\* a three-step angle scan at the wavelength given as an energy of 2 eV
C14_Witness ==
    /\ pc = "done"
    /\ io.mode = "ConstantWavelength"
    /\ io.eV
    /\ io.wavelength = 2
    /\ io.min = 0
    /\ io.increment = 1
    /\ Len(results) = 3
    /\ results[3].incidenceAngle = [kind |-> "deg", val |-> 2]
    /\ results[3].wavelength = [inf |-> FALSE, num |-> HCNum, den |-> 2 * HCDen]

-----------------------------------------------------------------------------
(* C15 *)

\* the number of indices in 0 .. totalSteps-1
IndexCount == IF totalSteps > 0 THEN totalSteps ELSE 0

\* C15: the solver is invoked exactly once for each index 0..totalSteps-1: a
\* call is always for the index equal to the number of calls made before it
\* (so no index is called twice, a failed one included), that index is below
\* totalSteps, the index only ever moves on by one and only after its call,
\* and a run that ends has made one call per index.
C15_OncePerIndex ==
    /\ [][SolverInvoked =>
            /\ i = Len(results)
            /\ 0 <= i /\ i < totalSteps
            /\ i' = i
            /\ results'[i + 1].value = io.min + io.increment * i]_vars
    /\ [][i' # i => i' = i + 1 /\ Len(results) = i']_vars
    /\ [](pc = "done" => Len(results) = IndexCount)

\* a finished three-step run whose first step failed: three calls, one per
\* index
C15_Witness ==
    /\ pc = "done"
    /\ totalSteps = 3
    /\ io.increment = 1
    /\ Len(results) = 3
    /\ results[1].status = "Failure"
    /\ \A k \in 1..3 : results[k].value = io.min + (k - 1)

-----------------------------------------------------------------------------
(* C16 *)

\* the text of a progress block that reports InProgress with no step
\* completed
InitialBlockText ==
    TxtProgress \o TxtStatus \o TxtInProgress \o NL
    \o TxtCompleted \o <<"0">> \o NL
    \o TxtTotal \o FormatInt(totalSteps) \o NL

\* C16 (as claimed): when the solver is invoked for the first step, the
\* primary artifact holds, after its header, exactly the initial progress
\* block (InProgress, completedSteps 0, no result line), and so does the
\* progress file when one is enabled.
C16_InitialBlockAsClaimed ==
    [][(SolverInvoked /\ i = 0) =>
          /\ PrimaryRegion = InitialBlockText
          /\ StatusIn(PrimaryRegion) = "InProgress"
          /\ io.progressFile => progFile = InitialBlockText]_vars

\* C16 (amended): when the solver is invoked for the first step, main has
\* written to the primary artifact, after its header, exactly the initial
\* progress block (InProgress, completedSteps 0, no result line), which is
\* on disk when the writers flush; the progress file, when one is enabled,
\* holds the same block if it opened again for the initial write, and is
\* empty, as the startup check left it, if it did not.
C16_InitialBlockBeforeFirstStep ==
    [][(SolverInvoked /\ i = 0) =>
          /\ PrimaryRegion = InitialBlockText
          /\ StatusIn(PrimaryRegion) = "InProgress"
          /\ flushes => DiskRegion = InitialBlockText
          /\ io.progressFile =>
                progFile = IF progOpen THEN InitialBlockText ELSE <<>>]_vars

\* the state the first call starts from, with a progress file enabled
C16_Witness ==
    /\ pc = "loop"
    /\ i = 0
    /\ LoopCondition(i, totalSteps)
    /\ io.progressFile
    /\ results = <<>>
    /\ PrimaryRegion = InitialBlockText
    /\ DiskRegion = InitialBlockText
    /\ progOpen
    /\ progFile = InitialBlockText

-----------------------------------------------------------------------------
(* C17 *)

\* a is the beginning of b
IsPrefix(a, b) == Len(a) <= Len(b) /\ SubSeq(b, 1, Len(a)) = a

\* C17: results is append-only: every step of the program leaves it as it is
\* or adds exactly one result at its end, so the results held after step k
\* are a prefix of those held after step k+1 and no stored result is ever
\* changed, reordered or removed.
C17_AppendOnly ==
    [][/\ IsPrefix(results, results')
       /\ Len(results') <= Len(results) + 1
       /\ SolverInvoked => results' = results \o <<results'[Len(results')]>>
       /\ i' = i + 1 => Len(results') = i']_vars

\* three results with three different coordinates, held in step order after
\* a failed first step
C17_Witness ==
    /\ pc = "writeHead"
    /\ Len(results) = 3
    /\ io.increment = 1
    /\ results[1].value = io.min
    /\ results[1].status = "Failure"
    /\ results[2].value = io.min + 1
    /\ results[3].value = io.min + 2
    /\ results[3].status = "Success"

-----------------------------------------------------------------------------
(* C18 *)

\* the header has been written and its end recorded
HeaderWritten == pc \notin {"open", "header", "aborted"}

\* the first n bytes of the primary artifact
HeaderBytes(content, n) == SubSeq(content, 1, n)

\* the progress block main writes next: the initial one, or the one of the
\* step just calculated
BlockToWrite ==
    ProgressBlock(Len(results), totalSteps, anySuccesses, anyFailures)

\* the header is on disk: always when the writers flush, and from the first
\* seekp on when they leave their bytes in the stream buffer
HeaderOnDisk == flushes \/ (Len(results) >= 1 /\ pc # "writeHead")

\* C18: once the header is written and the offset of its end recorded, the
\* offset never changes, the bytes before it stay those of the header in
\* every later state (in the stream, and on disk from the moment they reach
\* the disk), and every later write to the primary artifact lands at or
\* after the offset, a rewrite starting exactly at it.
C18_HeaderImmutable ==
    /\ [](HeaderWritten =>
            /\ outputFilePosition = Len(Header(io))
            /\ HeaderBytes(outStream, outputFilePosition) = Header(io)
            /\ outFile = <<>> \/ HeaderBytes(outFile, outputFilePosition) = Header(io)
            /\ HeaderOnDisk => HeaderBytes(outFile, outputFilePosition) = Header(io)
            /\ outPos >= outputFilePosition)
    /\ [][HeaderWritten =>
            (/\ outputFilePosition' = outputFilePosition
             /\ HeaderBytes(outStream', outputFilePosition)
                  = HeaderBytes(outStream, outputFilePosition)
             /\ outFile # <<>> =>
                  HeaderBytes(outFile', outputFilePosition)
                    = HeaderBytes(outFile, outputFilePosition))]_vars
    /\ [][(pc = "writeHead") => (outPos' = outputFilePosition)]_vars
    /\ [][(pc \in {"initProgress", "writeProgress"}) =>
            (/\ outPos = outputFilePosition
             /\ outPos' - outputFilePosition = Len(BlockToWrite)
             /\ SubSeq(outStream', outputFilePosition + 1, outPos')
                  = BlockToWrite)]_vars

\* the region has been rewritten three times and the header is still the
\* one written at the start
C18_Witness ==
    /\ pc = "done"
    /\ Len(results) = 3
    /\ outputFilePosition > 0
    /\ HeaderBytes(outFile, outputFilePosition) = Header(io)
    /\ Len(outFile) > outputFilePosition

-----------------------------------------------------------------------------
(* C19 *)

RECURSIVE WriteLines(_, _, _, _)
\* lines 224-225 on a file: the result lines from number n on are written one
\* after the other from position pos
WriteLines(content, pos, rs, n) ==
    IF n > Len(rs)
    THEN content
    ELSE WriteLines(WriteAt(content, pos, ResultLine(rs[n])),
                    pos + Len(ResultLine(rs[n])), rs, n + 1)

\* lines 221-225 on a file: one rewrite of the region with the results and
\* flags main holds now
RewriteRegion(content) ==
    LET at == SeekTo(outputFilePosition, Len(content))
        head == ProgressBlock(Len(results), totalSteps, anySuccesses,
                              anyFailures) \o TxtOutput
    IN  WriteLines(WriteAt(content, at, head), at + Len(head), results, 1)

\* C19: rewriting the region twice in succession with the same inputs
\* leaves the primary artifact byte-identical to what one rewrite leaves:
\* before a step's rewrite the second of two rewrites changes nothing, and
\* the file the program has written for a step is what one more rewrite
\* gives back.
C19_RewriteIdempotent ==
    /\ pc = "writeHead" =>
          RewriteRegion(RewriteRegion(outStream)) = RewriteRegion(outStream)
    /\ StepWritten =>
          /\ RewriteRegion(outStream) = outStream
          /\ RewriteRegion(RewriteRegion(outStream)) = outStream
    /\ (pc = "done" /\ i >= 1) => RewriteRegion(outFile) = outFile

\* before the rewrite of the second step: the first rewrite changes the
\* file (it still holds one result), the second leaves it byte-identical
C19_Witness ==
    /\ pc = "writeHead"
    /\ Len(results) = 2
    /\ RewriteRegion(outStream) # outStream
    /\ RewriteRegion(RewriteRegion(outStream)) = RewriteRegion(outStream)

-----------------------------------------------------------------------------
(* C20 *)

\* a step of main at which the progress file, enabled and accepted by the
\* startup check, does not open again
ReopenFails ==
    /\ pc \in {"initProgressFile", "progressFile"}
    /\ io.progressFile
    /\ ~progOpen'

\* the write that follows an open that failed
WriteToFailedStream ==
    /\ pc \in {"initProgressWrite", "progressWrite"}
    /\ ~progOpen

\* the progress file did not open again at the update after a step
ReopenFailedAfterStep ==
    /\ pc = "loop"
    /\ i >= 1
    /\ io.progressFile
    /\ ~progOpen

\* C20: a progress file that does not open again after the startup check
\* does not abort the sweep: the failing update changes neither results nor
\* the primary artifact nor the progress file and main goes on to the next
\* index, and a run in which an update after a step failed still ends
\* normally with every step completed and the primary artifact holding the
\* final block and all result lines.
C20_ProgressFileFailureTolerated ==
    /\ [][(ReopenFails \/ WriteToFailedStream) =>
            (/\ results' = results
             /\ outFile' = outFile
             /\ outStream' = outStream
             /\ progFile' = progFile
             /\ anyFailures' = anyFailures
             /\ anySuccesses' = anySuccesses
             /\ pc' \in {"initProgressWrite", "progressWrite", "loop"}
             /\ exitCode' = exitCode)]_vars
    /\ ReopenFailedAfterStep ~>
          (/\ pc = "done"
           /\ exitCode = 0
           /\ i = totalSteps
           /\ Len(results) = totalSteps
           /\ DiskRegion = RegionFor(totalSteps))

\* a finished two-step run whose last update of the progress file failed:
\* the primary artifact is complete, the progress file still shows the
\* first step
C20_Witness ==
    /\ pc = "done"
    /\ io.progressFile
    /\ ~progOpen
    /\ totalSteps = 2
    /\ Len(results) = 2
    /\ DiskRegion = RegionFor(2)
    /\ StatusIn(DiskRegion) # "InProgress"
    /\ progFile = ProgressBlock(1, 2, SomeSuccess(SubSeq(results, 1, 1)),
                                SomeFailure(SubSeq(results, 1, 1)))
    /\ StatusIn(progFile) = "InProgress"

====
